---------------------------- MODULE Spec2Model ----------------------------
(***************************************************************************)
(* Model of ai_encryptor_plus/ui/script.js: the browser dashboard of the   *)
(* file encryptor.  The page is one UI thread: every event handler and     *)
(* every continuation of an async handler (the code between two awaits)    *)
(* runs to completion, so each is one action.  The server and the user are *)
(* the environment: they choose the events and the responses.              *)
(*                                                                         *)
(* Text is modelled as sequences of tokens (strings); a header or field    *)
(* value that is parsed character by character is a sequence of            *)
(* one-character strings.  Elapsed times are integers in units of 0.0001 s *)
(* (the four decimals the page prints).                                    *)
(***************************************************************************)
EXTENDS Integers, Sequences, FiniteSets, TLC

VARIABLES
    chosenFilesEnc,   \* script.js:5   files selected for encryption
    chosenFilesCmp,   \* script.js:6   files selected for comparison
    pkgFiles,         \* $('pkg').files, the decrypt file input's FileList
    pw,               \* value of pwEnc / pwCmp / pwDec, per workflow
    disabled,         \* .disabled of btnEncrypt / btnCompare / btnDecrypt
    logEl,            \* child nodes of log-enc / log-cmp / log-dec
    footer,           \* textContent of the status line
    fileList,         \* innerHTML of fileList-enc / fileList-cmp
    summary,          \* summary-enc / summary-cmp: hidden class and text
    tabsActive,       \* tab buttons carrying class 'active'
    pagesActive,      \* pages carrying class 'active'
    panelsHidden,     \* settings panels carrying class 'hidden'
    comparisonChart,  \* script.js:4   0 = undefined, else index into charts
    charts,           \* Chart instances created on the canvas, with their data
    loaded,           \* window.onload has run
    pending,          \* async handlers suspended at an await
    objectURLs,       \* object URLs created and not revoked
    issued            \* number of trigger activations handled so far (also
                      \* names the request of each)

vars == << chosenFilesEnc, chosenFilesCmp, pkgFiles, pw, disabled, logEl, footer,
           fileList, summary, tabsActive, pagesActive, panelsHidden,
           comparisonChart, charts, loaded, pending, objectURLs, issued >>

\* Cap on the number of requests the user issues in one run of the model.
MaxRequests == 2

\* The largest of the small elapsed times (in units of 0.0001 s) a compare
\* response reports.
MaxTime == 10

Workflows == {"enc", "cmp", "dec"}
SelectionWorkflows == {"enc", "cmp"}
TabIds == {"encrypt", "decrypt", "compare"}

-----------------------------------------------------------------------------
(* Inputs the environment chooses from. *)

FileA == [name |-> "a.txt", size |-> 512]
FileB == [name |-> "b.bin", size |-> 3 * 1024 * 1024]

\* File lists a drop or a picker change can carry.
FileLists == { <<>>, <<FileA>>, <<FileB, FileA>> }

\* File lists of the single-file package input.
PackageLists == { <<>>, <<FileA>> }

\* Values typed into a password field.
Passwords == { <<>>, <<" ">>, <<" ", "p">> }

\* JSON values a non-success response body can parse to; "undefined" marks an
\* object without the field.
NoField == "undefined"
ErrorBodies ==
    { [parses |-> FALSE, isNull |-> FALSE, error |-> NoField],
      [parses |-> TRUE,  isNull |-> TRUE,  error |-> NoField],
      [parses |-> TRUE,  isNull |-> FALSE, error |-> NoField],
      [parses |-> TRUE,  isNull |-> FALSE, error |-> ""],
      [parses |-> TRUE,  isNull |-> FALSE, error |-> "bad password"] }

ErrorStatuses == {401, 500}

\* A response header: absent (headers.get gives null) or a value.
NoHeader == [present |-> FALSE, value |-> <<>>]
Header(v) == [present |-> TRUE, value |-> v]

\* X-Time-Elapsed of an encrypt response.
TimeHeaders == { NoHeader, Header(<<"a", "b">>), Header(<<"1", ".", "5">>) }

\* X-Time-FIFO and X-Time-AI of a compare response.
CompareTimeHeaders ==
    { <<NoHeader, NoHeader>>,
      <<Header(<<"2", ".", "0">>), Header(<<"1", ".", "5">>)>>,
      <<Header(<<"1", ".", "5">>), Header(<<"2">>)>>,
      <<Header(<<"2">>), Header(<<"a", "b">>)>> }

\* JSON bodies of a decrypt success response: unparsable, or an object with
\* session_id and, when hasFiles, the member list files (a name is a
\* sequence of tokens: path segments, "/" and " ").
DecryptBodies ==
    { [parses |-> FALSE, session_id |-> "", hasFiles |-> FALSE, files |-> <<>>],
      [parses |-> TRUE, session_id |-> "abc123", hasFiles |-> FALSE, files |-> <<>>],
      [parses |-> TRUE, session_id |-> "abc123", hasFiles |-> TRUE, files |-> <<>>],
      [parses |-> TRUE, session_id |-> "abc123", hasFiles |-> TRUE,
       files |-> << <<"a.txt">>, <<"sub", "/", "b", " ", "c.txt">> >>] }

ContentDispositions ==
    { NoHeader,
      Header(<<"attachment; ", "filename=", "\"", "result.zip", "\"">>) }

-----------------------------------------------------------------------------
(* Global helpers and the JavaScript built-ins the page relies on. *)

RECURSIVE TrimLeft(_)
TrimLeft(s) == IF s # <<>> /\ Head(s) = " " THEN TrimLeft(Tail(s)) ELSE s

RECURSIVE TrimRight(_)
TrimRight(s) ==
    IF s # <<>> /\ s[Len(s)] = " " THEN TrimRight(SubSeq(s, 1, Len(s) - 1)) ELSE s

\* String.prototype.trim
Trim(s) == TrimRight(TrimLeft(s))

\* Truthiness of a string, of a number (array length) and of their && chain.
Truthy(s) == s # <<>>

\* Numbers: elapsed seconds in units of 0.0001, or NaN.
NaN == [nan |-> TRUE, v |-> 0]
Num(n) == [nan |-> FALSE, v |-> n]

Digits == {"0", "1", "2", "3", "4", "5", "6", "7", "8", "9"}
DigitVal(c) ==
    CASE c = "0" -> 0 [] c = "1" -> 1 [] c = "2" -> 2 [] c = "3" -> 3
      [] c = "4" -> 4 [] c = "5" -> 5 [] c = "6" -> 6 [] c = "7" -> 7
      [] c = "8" -> 8 [] c = "9" -> 9

RECURSIVE DigitsPrefix(_)
DigitsPrefix(s) ==
    IF s # <<>> /\ Head(s) \in Digits
    THEN <<Head(s)>> \o DigitsPrefix(Tail(s))
    ELSE <<>>

RECURSIVE IntOf(_)
IntOf(d) ==
    IF d = <<>> THEN 0
    ELSE IntOf(SubSeq(d, 1, Len(d) - 1)) * 10 + DigitVal(d[Len(d)])

\* The first four fraction digits, as a count of 0.0001.
Frac4(d) ==
    IntOf([i \in 1..4 |-> IF i <= Len(d) THEN d[i] ELSE "0"])

\* parseFloat on a string of characters: leading blanks, a sign, digits and
\* a fraction; anything else in front gives NaN.  (Exponents and "Infinity"
\* are not among the inputs.)
parseFloat(s) ==
    LET t    == TrimLeft(s)
        sign == IF t # <<>> /\ Head(t) = "-" THEN -1 ELSE 1
        u    == IF t # <<>> /\ Head(t) \in {"-", "+"} THEN Tail(t) ELSE t
        ip   == DigitsPrefix(u)
        r    == SubSeq(u, Len(ip) + 1, Len(u))
        fp   == IF r # <<>> /\ Head(r) = "." THEN DigitsPrefix(Tail(r)) ELSE <<>>
    IN  IF ip = <<>> /\ fp = <<>> THEN NaN
        ELSE Num(sign * (IntOf(ip) * 10000 + Frac4(fp)))

\* headers.get(name) || '0'
HeaderOrZero(h) == IF h.present /\ h.value # <<>> THEN h.value ELSE <<"0">>

Abs(n) == IF n < 0 THEN -n ELSE n

\* Four digits, zero-padded on the left.
Pad4(n) ==
    IF n < 10 THEN "000" \o ToString(n)
    ELSE IF n < 100 THEN "00" \o ToString(n)
    ELSE IF n < 1000 THEN "0" \o ToString(n)
    ELSE ToString(n)

\* Number.prototype.toFixed(4) of a number held in units of 0.0001
toFixed4(x) ==
    IF x.nan THEN "NaN"
    ELSE (IF x.v < 0 THEN "-" ELSE "") \o ToString(Abs(x.v) \div 10000)
         \o "." \o Pad4(Abs(x.v) % 10000)

\* The characters of a non-negative integer.
RECURSIVE DigitsOf(_)
DigitsOf(n) ==
    (IF n < 10 THEN <<>> ELSE DigitsOf(n \div 10))
        \o << CHOOSE c \in Digits : DigitVal(c) = n % 10 >>

\* A header value: the time n (in units of 0.0001 s) in seconds, with four
\* decimals, character by character.
TimeText(n) ==
    DigitsOf(n \div 10000) \o <<".">>
        \o [i \in 1..4 |-> DigitsOf(10000 + (n % 10000))[i + 1]]

\* Elapsed times a server can report, in units of 0.0001 s: the small ones
\* around the noise threshold, and 1.5 s and 2.0 s.
Times == 0..MaxTime \cup {15000, 20000}

\* script.js:9-15  fmtBytes, with toFixed(1) as rounding to tenths
Tenths(n, unit) == (n * 10 + unit \div 2) \div unit
Fixed1(t) == ToString(t \div 10) \o "." \o ToString(t % 10)
fmtBytes(n) ==
    IF n < 1 THEN "0 B"
    ELSE IF n < 1024 THEN ToString(n) \o " B"
    ELSE IF n < 1024 * 1024 THEN Fixed1(Tenths(n, 1024)) \o " KB"
    ELSE IF n < 1024 * 1024 * 1024 THEN Fixed1(Tenths(n, 1024 * 1024)) \o " MB"
    ELSE Fixed1(Tenths(n, 1024 * 1024 * 1024)) \o " GB"

(* DOM nodes of a log element: a text node holding lines, or an <a> element
   whose text is one line. A line is a sequence of tokens. *)
TextNode(lines) == [kind |-> "text", lines |-> lines, href |-> <<>>, download |-> <<>>]
LinkNode(href, download, text) ==
    [kind |-> "a", lines |-> <<text>>, href |-> href, download |-> download]

RECURSIVE TextContent(_)
TextContent(nodes) ==
    IF nodes = <<>> THEN <<>> ELSE Head(nodes).lines \o TextContent(Tail(nodes))

\* script.js:28-32  log: textContent += m + "\n" replaces the children of the
\* element by one text node holding the old text and the new line
log(nodes, m) == << TextNode(TextContent(nodes) \o <<m>>) >>

\* script.js:35-39  logHTML: appendChild
logHTML(nodes, html) == Append(nodes, html)

\* script.js:42-44  setStatus
setStatus(text) == <<"Status: ">> \o text

Contains(line, token) == \E i \in 1..Len(line) : line[i] = token

-----------------------------------------------------------------------------
(* The page as index.html delivers it, before any handler has run: nothing
   selected, every trigger disabled, summaries hidden, logs empty, the
   Encrypt tab shown. *)
IndexHtml ==
    [ disabled     |-> [w \in Workflows |-> TRUE],
      summary      |-> [w \in SelectionWorkflows |-> [hidden |-> TRUE, text |-> ""]],
      fileList     |-> [w \in SelectionWorkflows |-> <<>>],
      logEl        |-> [w \in Workflows |-> <<>>],
      footer       |-> <<"Status: ">>,
      tabsActive   |-> {"encrypt"},
      pagesActive  |-> {"encrypt"},
      panelsHidden |-> {"decrypt", "compare"} ]

\* The state once the script has run: the globals of script.js:4-6, empty
\* form fields, no request issued.
InitScript ==
    /\ chosenFilesEnc = <<>>
    /\ chosenFilesCmp = <<>>
    /\ pkgFiles = <<>>
    /\ pw = [w \in Workflows |-> <<>>]
    /\ disabled = IndexHtml.disabled
    /\ logEl = IndexHtml.logEl
    /\ footer = IndexHtml.footer
    /\ fileList = IndexHtml.fileList
    /\ summary = IndexHtml.summary
    /\ comparisonChart = 0
    /\ charts = <<>>
    /\ loaded = FALSE
    /\ pending = {}
    /\ objectURLs = {}
    /\ issued = 0

Init ==
    /\ InitScript
    /\ tabsActive = IndexHtml.tabsActive
    /\ pagesActive = IndexHtml.pagesActive
    /\ panelsHidden = IndexHtml.panelsHidden

\* The same, with the tab classes of the markup left open: any of the nine
\* elements may carry its class before the first switchTab.
TabInit ==
    /\ InitScript
    /\ tabsActive \in SUBSET TabIds
    /\ pagesActive \in SUBSET TabIds
    /\ panelsHidden \in SUBSET TabIds

-----------------------------------------------------------------------------
(* Tab/page switching, script.js:74-101 *)

\* switchTab without its three forEach loops: nothing is deactivated first
switchTabKeepsOthers(tabId) ==
    [ tabsActive   |-> tabsActive \cup {tabId},
      pagesActive  |-> pagesActive \cup {tabId},
      panelsHidden |-> panelsHidden \ {tabId} ]

\* switchTab: the three class lists after the call
switchTab(tabId) ==
    LET chosen == IF tabId = "encrypt" THEN "encrypt"
                  ELSE IF tabId = "decrypt" THEN "decrypt"
                  ELSE "compare"
    IN  [ tabsActive   |-> ((tabsActive \ TabIds) \cup {chosen}),
          pagesActive  |-> ((pagesActive \ TabIds) \cup {chosen}),
          panelsHidden |-> ((panelsHidden \cup TabIds) \ {chosen}) ]

\* btnTabEncrypt / btnTabDecrypt / btnTabCompare .onclick
BtnTabOnclick(tabId) ==
    /\ tabsActive' = switchTab(tabId).tabsActive
    /\ pagesActive' = switchTab(tabId).pagesActive
    /\ panelsHidden' = switchTab(tabId).panelsHidden
    /\ UNCHANGED << chosenFilesEnc, chosenFilesCmp, pkgFiles, pw, disabled,
                    logEl, footer, fileList, summary, comparisonChart,
                    charts, loaded, pending, objectURLs, issued >>

TabOnclick == \E tabId \in TabIds : BtnTabOnclick(tabId)

-----------------------------------------------------------------------------
(* File list renderer, script.js:106-122 *)

RECURSIVE TotalSize(_)
TotalSize(fileArray) ==
    IF fileArray = <<>> THEN 0
    ELSE Head(fileArray).size + TotalSize(Tail(fileArray))

\* listEl.innerHTML after renderFileList
RenderedList(fileArray) ==
    IF Len(fileArray) = 0 THEN <<>>
    ELSE [i \in 1..Len(fileArray) |->
            <<fileArray[i].name, fmtBytes(fileArray[i].size)>>]

\* summaryEl after renderFileList: hidden when empty (its text is left as
\* it was), otherwise shown with the count and the total size
RenderedSummary(old, fileArray) ==
    IF Len(fileArray) = 0 THEN [old EXCEPT !.hidden = TRUE]
    ELSE [ hidden |-> FALSE,
           text   |-> ToString(Len(fileArray)) \o " file(s) - Total size: "
                      \o fmtBytes(TotalSize(fileArray)) ]

-----------------------------------------------------------------------------
(* Encrypt page: enablement and selection, script.js:126-144 *)

\* enableEncrypt looking at the password alone
enableEncryptPasswordOnly(files, password) == ~Truthy(Trim(password))

\* enableEncrypt: the value it stores in btnEncrypt.disabled
enableEncrypt(files, password) == ~(Len(files) # 0 /\ Truthy(Trim(password)))

\* renderFileList(chosenFilesEnc, 'fileList-enc', 'summary-enc', enableEncrypt)
RenderEnc(files) ==
    /\ disabled' = [disabled EXCEPT !["enc"] = enableEncrypt(files, pw["enc"])]
    /\ fileList' = [fileList EXCEPT !["enc"] = RenderedList(files)]
    /\ summary' = [summary EXCEPT !["enc"] = RenderedSummary(@, files)]

\* $('pwEnc').oninput = enableEncrypt, after the user edited the field
PwEncOninput ==
    \E value \in Passwords :
        /\ value # pw["enc"]
        /\ pw' = [pw EXCEPT !["enc"] = value]
        /\ disabled' = [disabled EXCEPT !["enc"] = enableEncrypt(chosenFilesEnc, value)]
        /\ UNCHANGED << chosenFilesEnc, chosenFilesCmp, pkgFiles, logEl, footer,
                        fileList, summary, tabsActive, pagesActive, panelsHidden,
                        comparisonChart, charts, loaded, pending, objectURLs, issued >>

\* The body of dzEnc.ondrop and of $('files-enc').onchange, appending the
\* event's files to the selection instead of replacing it
SelectEncAppending(files) ==
    /\ chosenFilesEnc' = chosenFilesEnc \o files
    /\ RenderEnc(chosenFilesEnc \o files)
    /\ UNCHANGED << chosenFilesCmp, pkgFiles, pw, logEl, footer, tabsActive,
                    pagesActive, panelsHidden, comparisonChart, charts,
                    loaded, pending, objectURLs, issued >>

\* The body dzEnc.ondrop and $('files-enc').onchange share: the selection
\* becomes the array of the event's files and is rendered
SelectEnc(files) ==
    /\ chosenFilesEnc' = files
    /\ RenderEnc(files)
    /\ UNCHANGED << chosenFilesCmp, pkgFiles, pw, logEl, footer, tabsActive,
                    pagesActive, panelsHidden, comparisonChart, charts,
                    loaded, pending, objectURLs, issued >>

\* dzEnc.ondrop, with e.dataTransfer.files
DzEncOndrop == \E files \in FileLists : SelectEnc(files)

\* $('files-enc').onchange, with e.target.files
FilesEncOnchange == \E files \in FileLists : SelectEnc(files)

-----------------------------------------------------------------------------
(* Compare page: enablement and selection, script.js:192-209 *)

\* enableCompare: the value it stores in btnCompare.disabled
enableCompare(files, password) == ~(Len(files) # 0 /\ Truthy(Trim(password)))

\* renderFileList(chosenFilesCmp, 'fileList-cmp', 'summary-cmp', enableCompare)
RenderCmp(files) ==
    /\ disabled' = [disabled EXCEPT !["cmp"] = enableCompare(files, pw["cmp"])]
    /\ fileList' = [fileList EXCEPT !["cmp"] = RenderedList(files)]
    /\ summary' = [summary EXCEPT !["cmp"] = RenderedSummary(@, files)]

\* $('pwCmp').oninput = enableCompare
PwCmpOninput ==
    \E value \in Passwords :
        /\ value # pw["cmp"]
        /\ pw' = [pw EXCEPT !["cmp"] = value]
        /\ disabled' = [disabled EXCEPT !["cmp"] = enableCompare(chosenFilesCmp, value)]
        /\ UNCHANGED << chosenFilesEnc, chosenFilesCmp, pkgFiles, logEl, footer,
                        fileList, summary, tabsActive, pagesActive, panelsHidden,
                        comparisonChart, charts, loaded, pending, objectURLs, issued >>

\* The body dzCmp.ondrop and $('files-cmp').onchange share: the selection
\* becomes the array of the event's files and is rendered
SelectCmp(files) ==
    /\ chosenFilesCmp' = files
    /\ RenderCmp(files)
    /\ UNCHANGED << chosenFilesEnc, pkgFiles, pw, logEl, footer, tabsActive,
                    pagesActive, panelsHidden, comparisonChart, charts,
                    loaded, pending, objectURLs, issued >>

\* dzCmp.ondrop, with e.dataTransfer.files
DzCmpOndrop == \E files \in FileLists : SelectCmp(files)

\* $('files-cmp').onchange, with e.target.files
FilesCmpOnchange == \E files \in FileLists : SelectCmp(files)

-----------------------------------------------------------------------------
(* Decrypt page: enablement, script.js:304-306 *)

\* enableDecrypt: the value it stores in btnDecrypt.disabled
enableDecrypt(files, password) == ~(Len(files) # 0 /\ Truthy(Trim(password)))

\* $('pkg').onchange = enableDecrypt, after the user changed the package input
PkgOnchange ==
    \E files \in PackageLists :
        /\ files # pkgFiles
        /\ pkgFiles' = files
        /\ disabled' = [disabled EXCEPT !["dec"] = enableDecrypt(files, pw["dec"])]
        /\ UNCHANGED << chosenFilesEnc, chosenFilesCmp, pw, logEl, footer, fileList,
                        summary, tabsActive, pagesActive, panelsHidden,
                        comparisonChart, charts, loaded, pending, objectURLs, issued >>

\* $('pwDec').oninput = enableDecrypt
PwDecOninput ==
    \E value \in Passwords :
        /\ value # pw["dec"]
        /\ pw' = [pw EXCEPT !["dec"] = value]
        /\ disabled' = [disabled EXCEPT !["dec"] = enableDecrypt(pkgFiles, value)]
        /\ UNCHANGED << chosenFilesEnc, chosenFilesCmp, pkgFiles, logEl, footer,
                        fileList, summary, tabsActive, pagesActive, panelsHidden,
                        comparisonChart, charts, loaded, pending, objectURLs, issued >>

-----------------------------------------------------------------------------
(* Chart controller, script.js:212-240 *)

\* initChart: a new Chart on the canvas, showing [0, 0]; the global points to it
initChart(cs) == Append(cs, <<Num(0), Num(0)>>)

\* updateChart: [charts, comparisonChart] after the call
updateChart(fifoTime, priorityTime) ==
    LET cs  == IF comparisonChart = 0 THEN initChart(charts) ELSE charts
        ref == IF comparisonChart = 0 THEN Len(cs) ELSE comparisonChart
    IN  [ charts |-> [cs EXCEPT ![ref] = <<fifoTime, priorityTime>>],
          comparisonChart |-> ref ]

-----------------------------------------------------------------------------
(* Initial load, script.js:362-367.  fetchAutoSettings only fills the four
   read-only auto-settings labels, which nothing else reads; they are not
   part of the state. *)
WindowOnload ==
    /\ ~loaded
    /\ loaded' = TRUE
    /\ charts' = initChart(charts)
    /\ comparisonChart' = Len(charts')
    /\ tabsActive' = switchTab("encrypt").tabsActive
    /\ pagesActive' = switchTab("encrypt").pagesActive
    /\ panelsHidden' = switchTab("encrypt").panelsHidden
    /\ footer' = setStatus(<<"Ready">>)
    /\ UNCHANGED << chosenFilesEnc, chosenFilesCmp, pkgFiles, pw, disabled, logEl,
                    fileList, summary, pending, objectURLs, issued >>

\* window.onload when `new Chart` in initChart (script.js:213) throws: the
\* chart library did not load, or it refuses a canvas that already carries a
\* chart.  The exception ends the handler at its first statement.
WindowOnloadThrows ==
    /\ ~loaded
    /\ loaded' = TRUE
    /\ UNCHANGED << chosenFilesEnc, chosenFilesCmp, pkgFiles, pw, disabled, logEl,
                    footer, fileList, summary, tabsActive, pagesActive,
                    panelsHidden, comparisonChart, charts, pending, objectURLs,
                    issued >>

\* The load handler has run and left no chart: `new Chart` throws on this
\* page.
ChartUnavailable == loaded /\ comparisonChart = 0

-----------------------------------------------------------------------------
(* Pieces the three workflow handlers share: the same code appears in
   btnEncrypt.onclick, btnCompare.onclick and btnDecrypt.onclick. *)

\* An async handler suspended at an await.  stage: "fetch" (await fetch),
\* "json" (await response.json() of a non-success response), "blob" (await
\* response.blob()), "data" (await response.json() of a decrypt success).
\* status, cd (content-disposition) and body are those of the response once
\* fetch has resolved.
Suspended(id, w, stage, formData, status, cd, body) ==
    [ id |-> id, w |-> w, stage |-> stage, formData |-> formData,
      status |-> status, cd |-> cd, body |-> body ]

NoBody == [parses |-> FALSE]

Resume(r, stage, status, cd, body) ==
    (pending \ {r}) \cup
        {Suspended(r.id, r.w, stage, r.formData, status, cd, body)}

\* Messages of the errors the browser raises.
FetchFailed == <<"Failed to fetch">>
JsonSyntaxError == <<"Unexpected token in JSON">>
NullTypeError == <<"Cannot read properties of null">>

\* The !response.ok branch without err.error: always the status fallback
NotOkMessageStatusOnly(body, status) ==
    IF ~body.parses THEN JsonSyntaxError
    ELSE IF body.isNull THEN NullTypeError
    ELSE <<"Server responded with ", ToString(status)>>

\* script.js:161-162  e.message of what the !response.ok branch throws, given
\* the outcome of response.json()
NotOkMessage(body, status) ==
    IF ~body.parses THEN JsonSyntaxError
    ELSE IF body.isNull THEN NullTypeError
    ELSE IF body.error # NoField /\ body.error # ""
         THEN <<body.error>>
         ELSE <<"Server responded with ", ToString(status)>>

\* script.js:183  the error line of the catch block
ErrorLine(message) == <<"ERROR: ">> \o message

\* script.js:184  the status text of the catch block
ErrorStatus(message) == setStatus(<<"Error: ">> \o message)

\* A finally block that re-enables every trigger of the page
FinallyEnablesAll(w) == [v \in Workflows |-> FALSE]

\* script.js:185-187  finally: the trigger's disabled flag after the handler
Finally(w) == [disabled EXCEPT ![w] = FALSE]

\* catch without the finally block: the trigger stays as it is
CaughtWithoutFinally(r, message) ==
    /\ logEl' = [logEl EXCEPT ![r.w] = log(@, <<"ERROR: ">> \o message)]
    /\ footer' = setStatus(<<"Error: ">> \o message)
    /\ disabled' = disabled
    /\ pending' = pending \ {r}

\* catch and finally: the handler of request r ends with error `message`
Caught(r, message) ==
    /\ logEl' = [logEl EXCEPT ![r.w] = log(@, ErrorLine(message))]
    /\ footer' = ErrorStatus(message)
    /\ disabled' = Finally(r.w)
    /\ pending' = pending \ {r}

\* The token after which the file name stands in a content-disposition.
RECURSIVE IndexOf(_, _)
IndexOf(s, token) ==
    IF s = <<>> THEN 0
    ELSE IF Head(s) = token THEN 1
    ELSE LET i == IndexOf(Tail(s), token) IN IF i = 0 THEN 0 ELSE i + 1

RECURSIVE JoinWithout(_, _)
JoinWithout(s, token) ==
    IF s = <<>> THEN ""
    ELSE (IF Head(s) = token THEN "" ELSE Head(s)) \o JoinWithout(Tail(s), token)

\* script.js:170  headers.get('content-disposition')?.split('filename=')[1]
\*                ?.replace(/"/g, '') || fallback
FilenameOf(cd, fallback) ==
    LET i    == IndexOf(cd.value, "filename=")
        rest == SubSeq(cd.value, i + 1, Len(cd.value))
        j    == IndexOf(rest, "filename=")
        part == IF j = 0 THEN rest ELSE SubSeq(rest, 1, j - 1)
        name == JoinWithout(part, "\"")
    IN  IF ~cd.present \/ i = 0 \/ name = "" THEN fallback ELSE name

\* URL.createObjectURL(blob) of the body of request id
ObjectURL(id) == <<"blob:", ToString(id)>>

-----------------------------------------------------------------------------
(* Encrypt workflow, script.js:147-188 *)

\* script.js:152-156  the multipart body (mode and policy are the values of
\* two selects no handler writes)
EncryptFormData ==
    [ password |-> Trim(pw["enc"]), files |-> chosenFilesEnc ]

\* $('btnEncrypt').onclick up to the await of fetch; a disabled button
\* dispatches no click
BtnEncryptOnclick ==
    /\ ~disabled["enc"]
    /\ issued < MaxRequests
    /\ disabled' = [disabled EXCEPT !["enc"] = TRUE]
    /\ logEl' = [logEl EXCEPT !["enc"] =
                    log(@, <<"Starting encryption... Uploading files to server.">>)]
    /\ footer' = setStatus(<<"Encrypting...">>)
    /\ issued' = issued + 1
    /\ pending' = pending \cup
           {Suspended(issued + 1, "enc", "fetch", EncryptFormData, 0, NoHeader, NoBody)}
    /\ UNCHANGED << chosenFilesEnc, chosenFilesCmp, pkgFiles, pw, fileList, summary,
                    tabsActive, pagesActive, panelsHidden, comparisonChart,
                    charts, loaded, objectURLs >>

\* fetch rejects (transport failure): catch, finally
EncryptFetchRejects ==
    \E r \in pending :
        /\ r.w = "enc" /\ r.stage = "fetch"
        /\ Caught(r, FetchFailed)
        /\ UNCHANGED << chosenFilesEnc, chosenFilesCmp, pkgFiles, pw, fileList,
                        summary, tabsActive, pagesActive, panelsHidden,
                        comparisonChart, charts, loaded, objectURLs, issued >>

\* fetch resolves with a non-success status: await response.json()
EncryptResponseNotOk ==
    \E r \in pending, status \in ErrorStatuses, body \in ErrorBodies :
        /\ r.w = "enc" /\ r.stage = "fetch"
        /\ pending' = Resume(r, "json", status, NoHeader, body)
        /\ UNCHANGED << chosenFilesEnc, chosenFilesCmp, pkgFiles, pw, disabled,
                        logEl, footer, fileList, summary, tabsActive, pagesActive,
                        panelsHidden, comparisonChart, charts, loaded,
                        objectURLs, issued >>

\* response.json() of the non-success response settles: throw, catch, finally
EncryptErrorBodySettles ==
    \E r \in pending :
        /\ r.w = "enc" /\ r.stage = "json"
        /\ Caught(r, NotOkMessage(r.body, r.status))
        /\ UNCHANGED << chosenFilesEnc, chosenFilesCmp, pkgFiles, pw, fileList,
                        summary, tabsActive, pagesActive, panelsHidden,
                        comparisonChart, charts, loaded, objectURLs, issued >>

\* fetch resolves with a success status: script.js:166-169, up to the await
\* of response.blob()
EncryptOk(r, elapsed, cd) ==
    LET time == parseFloat(HeaderOrZero(elapsed))
    IN  /\ r.w = "enc" /\ r.stage = "fetch"
        /\ logEl' = [logEl EXCEPT !["enc"] =
               log(@, <<"Success! Run complete in ", toFixed4(time), "s.">>)]
        /\ pending' = Resume(r, "blob", 200, cd, NoBody)
        /\ UNCHANGED << chosenFilesEnc, chosenFilesCmp, pkgFiles, pw, disabled,
                        footer, fileList, summary, tabsActive, pagesActive,
                        panelsHidden, comparisonChart, charts, loaded,
                        objectURLs, issued >>

\* the same, for the responses the server can send
EncryptResponseOk ==
    \E r \in pending, elapsed \in TimeHeaders, cd \in ContentDispositions :
        EncryptOk(r, elapsed, cd)

\* response.blob() resolves: script.js:170-180, finally
EncryptBlobResolves ==
    \E r \in pending :
        LET filename == FilenameOf(r.cd, "encrypted.zip")
            link == LinkNode(ObjectURL(r.id), filename,
                             <<"Download \"", filename, "\"">>)
        IN  /\ r.w = "enc" /\ r.stage = "blob"
            /\ logEl' = [logEl EXCEPT !["enc"] =
                   logHTML(log(@, <<"Package created: ", filename>>), link)]
            /\ objectURLs' = objectURLs \cup {ObjectURL(r.id)}
            /\ footer' = setStatus(<<"Encryption complete.">>)
            /\ disabled' = Finally("enc")
            /\ pending' = pending \ {r}
            /\ UNCHANGED << chosenFilesEnc, chosenFilesCmp, pkgFiles, pw, fileList,
                            summary, tabsActive, pagesActive, panelsHidden,
                            comparisonChart, charts, loaded, issued >>

\* response.blob() rejects (the body could not be read): catch, finally
EncryptBlobRejects ==
    \E r \in pending :
        /\ r.w = "enc" /\ r.stage = "blob"
        /\ Caught(r, FetchFailed)
        /\ UNCHANGED << chosenFilesEnc, chosenFilesCmp, pkgFiles, pw, fileList,
                        summary, tabsActive, pagesActive, panelsHidden,
                        comparisonChart, charts, loaded, objectURLs, issued >>

-----------------------------------------------------------------------------
(* Compare workflow, script.js:243-300 *)

\* The noise threshold of script.js:275, 0.0001 s, in units of 0.0001 s.
Epsilon == 1

\* a - b on numbers, NaN if either is
Minus(a, b) == IF a.nan \/ b.nan THEN NaN ELSE Num(a.v - b.v)

\* script.js:273  percent, in tenths of a percent as toFixed(1) rounds it
Percent(timeFIFO, saved) ==
    IF ~timeFIFO.nan /\ timeFIFO.v > 0
    THEN IF saved.nan THEN NaN
         ELSE Num((2 * saved.v * 1000 + timeFIFO.v) \div (2 * timeFIFO.v))
    ELSE Num(0)

toFixed1(x) ==
    IF x.nan THEN "NaN"
    ELSE (IF x.v < 0 THEN "-" ELSE "") \o Fixed1(Abs(x.v))

\* The reporting line without the noise threshold: faster whenever saved > 0
VerdictLineNoThreshold(timeFIFO, timeAI) ==
    LET saved   == Minus(timeFIFO, timeAI)
        percent == Percent(timeFIFO, saved)
    IN  IF ~saved.nan /\ saved.v > 0
        THEN <<"AI was ", toFixed4(saved), "s (", toFixed1(percent), "%) faster!">>
        ELSE <<"AI was ",
               toFixed4(IF saved.nan THEN NaN ELSE Num(Abs(saved.v))),
               "s slower.">>

\* script.js:275-279  the line that reports the comparison
VerdictLine(timeFIFO, timeAI) ==
    LET saved   == Minus(timeFIFO, timeAI)
        percent == Percent(timeFIFO, saved)
    IN  IF ~saved.nan /\ saved.v > Epsilon
        THEN <<"AI was ", toFixed4(saved), "s (", toFixed1(percent), "%) faster!">>
        ELSE <<"AI was ",
               toFixed4(IF saved.nan THEN NaN ELSE Num(Abs(saved.v))),
               "s slower.">>

CompareFormData ==
    [ password |-> Trim(pw["cmp"]), files |-> chosenFilesCmp ]

\* $('btnCompare').onclick up to the await of fetch
BtnCompareOnclick ==
    /\ ~disabled["cmp"]
    /\ ~ChartUnavailable
    /\ issued < MaxRequests
    /\ disabled' = [disabled EXCEPT !["cmp"] = TRUE]
    /\ logEl' = [logEl EXCEPT !["cmp"] =
                    log(@, <<"Starting comparison... Uploading files to server.">>)]
    /\ footer' = setStatus(<<"Running comparison...">>)
    /\ charts' = updateChart(Num(0), Num(0)).charts
    /\ comparisonChart' = updateChart(Num(0), Num(0)).comparisonChart
    /\ issued' = issued + 1
    /\ pending' = pending \cup
           {Suspended(issued + 1, "cmp", "fetch", CompareFormData, 0, NoHeader, NoBody)}
    /\ UNCHANGED << chosenFilesEnc, chosenFilesCmp, pkgFiles, pw, fileList, summary,
                    tabsActive, pagesActive, panelsHidden, loaded, objectURLs >>

\* $('btnCompare').onclick when updateChart(0, 0) (script.js:247) throws: the
\* statement stands before the try block, so the exception leaves the handler
\* and neither catch nor finally runs
BtnCompareOnclickThrows ==
    /\ ~disabled["cmp"]
    /\ ChartUnavailable
    /\ issued < MaxRequests
    /\ disabled' = [disabled EXCEPT !["cmp"] = TRUE]
    /\ logEl' = [logEl EXCEPT !["cmp"] =
                    log(@, <<"Starting comparison... Uploading files to server.">>)]
    /\ footer' = setStatus(<<"Running comparison...">>)
    /\ issued' = issued + 1
    /\ UNCHANGED << chosenFilesEnc, chosenFilesCmp, pkgFiles, pw, fileList, summary,
                    tabsActive, pagesActive, panelsHidden, comparisonChart,
                    charts, loaded, pending, objectURLs >>

CompareFetchRejects ==
    \E r \in pending :
        /\ r.w = "cmp" /\ r.stage = "fetch"
        /\ Caught(r, FetchFailed)
        /\ UNCHANGED << chosenFilesEnc, chosenFilesCmp, pkgFiles, pw, fileList,
                        summary, tabsActive, pagesActive, panelsHidden,
                        comparisonChart, charts, loaded, objectURLs, issued >>

CompareResponseNotOk ==
    \E r \in pending, status \in ErrorStatuses, body \in ErrorBodies :
        /\ r.w = "cmp" /\ r.stage = "fetch"
        /\ pending' = Resume(r, "json", status, NoHeader, body)
        /\ UNCHANGED << chosenFilesEnc, chosenFilesCmp, pkgFiles, pw, disabled,
                        logEl, footer, fileList, summary, tabsActive, pagesActive,
                        panelsHidden, comparisonChart, charts, loaded,
                        objectURLs, issued >>

CompareErrorBodySettles ==
    \E r \in pending :
        /\ r.w = "cmp" /\ r.stage = "json"
        /\ Caught(r, NotOkMessage(r.body, r.status))
        /\ UNCHANGED << chosenFilesEnc, chosenFilesCmp, pkgFiles, pw, fileList,
                        summary, tabsActive, pagesActive, panelsHidden,
                        comparisonChart, charts, loaded, objectURLs, issued >>

\* fetch resolves with a success status: script.js:260-281, up to the await
\* of response.blob()
CompareOk(r, times, cd) ==
    LET timeFIFO == parseFloat(HeaderOrZero(times[1]))
        timeAI   == parseFloat(HeaderOrZero(times[2]))
        lines    == << <<"Comparison complete on server.">>,
                       <<"--- RESULTS ---">>,
                       <<"FIFO (Naive):   ", toFixed4(timeFIFO), " seconds">>,
                       <<"AI (Priority):  ", toFixed4(timeAI), " seconds">>,
                       VerdictLine(timeFIFO, timeAI) >>
    IN  /\ r.w = "cmp" /\ r.stage = "fetch"
        /\ logEl' = [logEl EXCEPT !["cmp"] =
               << TextNode(TextContent(@) \o lines) >>]
        /\ charts' = updateChart(timeFIFO, timeAI).charts
        /\ comparisonChart' = updateChart(timeFIFO, timeAI).comparisonChart
        /\ pending' = Resume(r, "blob", 200, cd, NoBody)
        /\ UNCHANGED << chosenFilesEnc, chosenFilesCmp, pkgFiles, pw, disabled,
                        footer, fileList, summary, tabsActive, pagesActive,
                        panelsHidden, loaded, objectURLs, issued >>

\* the same, for the responses the server can send
CompareResponseOk ==
    \E r \in pending, times \in CompareTimeHeaders, cd \in ContentDispositions :
        CompareOk(r, times, cd)

\* the same, for a server that reports every pair of the elapsed times of
\* Times, each written with four decimals
CompareResponseTimed ==
    \E r \in pending, fifo \in Times, ai \in Times :
        CompareOk(r, <<Header(TimeText(fifo)), Header(TimeText(ai))>>, NoHeader)

\* response.blob() resolves: script.js:282-292, finally
CompareBlobResolves ==
    \E r \in pending :
        LET filename == FilenameOf(r.cd, "encrypted_ai.zip")
            link == LinkNode(ObjectURL(r.id), filename,
                             <<"Download AI-Priority Package">>)
        IN  /\ r.w = "cmp" /\ r.stage = "blob"
            /\ logEl' = [logEl EXCEPT !["cmp"] =
                   logHTML(log(@, <<"AI-Priority package created: ", filename>>),
                           link)]
            /\ objectURLs' = objectURLs \cup {ObjectURL(r.id)}
            /\ footer' = setStatus(<<"Comparison complete.">>)
            /\ disabled' = Finally("cmp")
            /\ pending' = pending \ {r}
            /\ UNCHANGED << chosenFilesEnc, chosenFilesCmp, pkgFiles, pw, fileList,
                            summary, tabsActive, pagesActive, panelsHidden,
                            comparisonChart, charts, loaded, issued >>

CompareBlobRejects ==
    \E r \in pending :
        /\ r.w = "cmp" /\ r.stage = "blob"
        /\ Caught(r, FetchFailed)
        /\ UNCHANGED << chosenFilesEnc, chosenFilesCmp, pkgFiles, pw, fileList,
                        summary, tabsActive, pagesActive, panelsHidden,
                        comparisonChart, charts, loaded, objectURLs, issued >>

-----------------------------------------------------------------------------
(* Decrypt workflow, script.js:309-358 *)

\* encodeURIComponent on a sequence of path tokens
encodeURIComponent(file) ==
    [i \in 1..Len(file) |->
        IF file[i] = "/" THEN "%2F"
        ELSE IF file[i] = " " THEN "%20"
        ELSE file[i]]

\* file.split('/').pop()
RECURSIVE LastSegment(_)
LastSegment(file) ==
    LET i == IndexOf(file, "/")
    IN  IF i = 0 THEN file ELSE LastSegment(SubSeq(file, i + 1, Len(file)))

\* The link of one member file with the path put into the URL as it is
DecryptLinkUnencoded(session_id, file) ==
    LinkNode(<<"/api/download_decrypted/", session_id, "/">> \o file,
             LastSegment(file),
             <<"Download \"">> \o file \o <<"\"">>)

\* script.js:337-343  the link of one member file
DecryptLink(session_id, file) ==
    LinkNode(<<"/api/download_decrypted/", session_id, "/">>
                 \o encodeURIComponent(file),
             LastSegment(file),
             <<"Download \"">> \o file \o <<"\"">>)

\* script.js:314-319  the multipart body; files[0] of an empty list is
\* undefined
DecryptFormData ==
    [ password |-> Trim(pw["dec"]),
      files |-> IF Len(pkgFiles) = 0 THEN <<>> ELSE <<pkgFiles[1]>> ]

\* $('btnDecrypt').onclick up to the await of fetch
BtnDecryptOnclick ==
    /\ ~disabled["dec"]
    /\ issued < MaxRequests
    /\ disabled' = [disabled EXCEPT !["dec"] = TRUE]
    /\ logEl' = [logEl EXCEPT !["dec"] =
                    log(@, <<"Sending package to server for decryption...">>)]
    /\ footer' = setStatus(<<"Decrypting...">>)
    /\ issued' = issued + 1
    /\ pending' = pending \cup
           {Suspended(issued + 1, "dec", "fetch", DecryptFormData, 0, NoHeader, NoBody)}
    /\ UNCHANGED << chosenFilesEnc, chosenFilesCmp, pkgFiles, pw, fileList, summary,
                    tabsActive, pagesActive, panelsHidden, comparisonChart,
                    charts, loaded, objectURLs >>

DecryptFetchRejects ==
    \E r \in pending :
        /\ r.w = "dec" /\ r.stage = "fetch"
        /\ Caught(r, FetchFailed)
        /\ UNCHANGED << chosenFilesEnc, chosenFilesCmp, pkgFiles, pw, fileList,
                        summary, tabsActive, pagesActive, panelsHidden,
                        comparisonChart, charts, loaded, objectURLs, issued >>

DecryptResponseNotOk ==
    \E r \in pending, status \in ErrorStatuses, body \in ErrorBodies :
        /\ r.w = "dec" /\ r.stage = "fetch"
        /\ pending' = Resume(r, "json", status, NoHeader, body)
        /\ UNCHANGED << chosenFilesEnc, chosenFilesCmp, pkgFiles, pw, disabled,
                        logEl, footer, fileList, summary, tabsActive, pagesActive,
                        panelsHidden, comparisonChart, charts, loaded,
                        objectURLs, issued >>

DecryptErrorBodySettles ==
    \E r \in pending :
        /\ r.w = "dec" /\ r.stage = "json"
        /\ Caught(r, NotOkMessage(r.body, r.status))
        /\ UNCHANGED << chosenFilesEnc, chosenFilesCmp, pkgFiles, pw, fileList,
                        summary, tabsActive, pagesActive, panelsHidden,
                        comparisonChart, charts, loaded, objectURLs, issued >>

\* fetch resolves with a success status: await response.json()
DecryptOk(r, data) ==
    /\ r.w = "dec" /\ r.stage = "fetch"
    /\ pending' = Resume(r, "data", 200, NoHeader, data)
    /\ UNCHANGED << chosenFilesEnc, chosenFilesCmp, pkgFiles, pw, disabled,
                    logEl, footer, fileList, summary, tabsActive, pagesActive,
                    panelsHidden, comparisonChart, charts, loaded,
                    objectURLs, issued >>

\* the same, for the responses the server can send
DecryptResponseOk == \E r \in pending, data \in DecryptBodies : DecryptOk(r, data)

\* The log after a parsed success body that has a member list, taking an
\* empty list for a success with zero files
DecryptLoggedAnyList(nodes, data) ==
    IF data.hasFiles
    THEN log(nodes, <<"Success! Server decrypted ", ToString(Len(data.files)),
                      " file(s):">>)
         \o [i \in 1..Len(data.files) |-> DecryptLink(data.session_id, data.files[i])]
    ELSE log(nodes, <<"Decryption complete, but no files were found in the package.">>)

\* script.js:332-348  the log after a parsed success body
DecryptLogged(nodes, data) ==
    IF data.hasFiles /\ Len(data.files) > 0
    THEN log(nodes, <<"Success! Server decrypted ", ToString(Len(data.files)),
                      " file(s):">>)
         \o [i \in 1..Len(data.files) |-> DecryptLink(data.session_id, data.files[i])]
    ELSE log(nodes, <<"Decryption complete, but no files were found in the package.">>)

\* response.json() of the success response settles: script.js:330-350 and
\* finally, or catch and finally when the body does not parse
DecryptDataSettles ==
    \E r \in pending :
        /\ r.w = "dec" /\ r.stage = "data"
        /\ IF r.body.parses
           THEN /\ logEl' = [logEl EXCEPT !["dec"] = DecryptLogged(@, r.body)]
                /\ footer' = setStatus(<<"Decryption complete.">>)
                /\ disabled' = Finally("dec")
                /\ pending' = pending \ {r}
           ELSE Caught(r, JsonSyntaxError)
        /\ UNCHANGED << chosenFilesEnc, chosenFilesCmp, pkgFiles, pw, fileList,
                        summary, tabsActive, pagesActive, panelsHidden,
                        comparisonChart, charts, loaded, objectURLs, issued >>

-----------------------------------------------------------------------------
(* The page: every handler and continuation. *)

EncryptPage ==
    \/ PwEncOninput \/ DzEncOndrop \/ FilesEncOnchange
    \/ BtnEncryptOnclick \/ EncryptFetchRejects \/ EncryptResponseNotOk
    \/ EncryptErrorBodySettles \/ EncryptResponseOk
    \/ EncryptBlobResolves \/ EncryptBlobRejects

ComparePage ==
    \/ PwCmpOninput \/ DzCmpOndrop \/ FilesCmpOnchange
    \/ BtnCompareOnclick \/ BtnCompareOnclickThrows
    \/ CompareFetchRejects \/ CompareResponseNotOk
    \/ CompareErrorBodySettles \/ CompareResponseOk
    \/ CompareBlobResolves \/ CompareBlobRejects

DecryptPage ==
    \/ PkgOnchange \/ PwDecOninput
    \/ BtnDecryptOnclick \/ DecryptFetchRejects \/ DecryptResponseNotOk
    \/ DecryptErrorBodySettles \/ DecryptResponseOk \/ DecryptDataSettles

Next ==
    \/ WindowOnload
    \/ WindowOnloadThrows
    \/ TabOnclick
    \/ EncryptPage
    \/ ComparePage
    \/ DecryptPage

Spec == Init /\ [][Next]_vars

\* Spec is the whole page.  The specifications below restrict it to the
\* handlers of one part, which are the only ones that write that part's
\* selection, password, trigger, list, summary and log; the parts share the
\* status line, the set of suspended handlers and the request counter.
EncryptSpec == Init /\ [][EncryptPage]_vars
CompareSpec == Init /\ [][ComparePage \/ WindowOnload \/ WindowOnloadThrows]_vars
DecryptSpec == Init /\ [][DecryptPage]_vars

\* The tab controller, from any markup.
TabSpec == TabInit /\ [][TabOnclick \/ WindowOnload]_vars

\* The user's side of the two selection pages, with a server that is never
\* reached: every request fails in transport.
SelectionPages ==
    \/ PwEncOninput \/ DzEncOndrop \/ FilesEncOnchange
    \/ PwCmpOninput \/ DzCmpOndrop \/ FilesCmpOnchange
    \/ BtnEncryptOnclick \/ EncryptFetchRejects
    \/ BtnCompareOnclick \/ CompareFetchRejects

SelectionSpec == Init /\ [][SelectionPages]_vars

\* The page after it has loaded and the user has filled the three forms: the
\* state Spec reaches by WindowOnload, a drop of a.txt on both zones, the
\* choice of a package and the password " p" typed into the three fields.
FormsFilled ==
    /\ chosenFilesEnc = <<FileA>>
    /\ chosenFilesCmp = <<FileA>>
    /\ pkgFiles = <<FileA>>
    /\ pw = [w \in Workflows |-> <<" ", "p">>]
    /\ disabled = [w \in Workflows |-> FALSE]
    /\ logEl = IndexHtml.logEl
    /\ footer = setStatus(<<"Ready">>)
    /\ fileList = [w \in SelectionWorkflows |-> RenderedList(<<FileA>>)]
    /\ summary = [w \in SelectionWorkflows |->
                     RenderedSummary(IndexHtml.summary[w], <<FileA>>)]
    /\ tabsActive = {"encrypt"}
    /\ pagesActive = {"encrypt"}
    /\ panelsHidden = {"decrypt", "compare"}
    /\ comparisonChart = 1
    /\ charts = initChart(<<>>)
    /\ loaded = TRUE
    /\ pending = {}
    /\ objectURLs = {}
    /\ issued = 0

\* The three workflows' requests, from the filled forms: the triggers and
\* every continuation of their handlers.
Requests ==
    \/ BtnEncryptOnclick \/ EncryptFetchRejects \/ EncryptResponseNotOk
    \/ EncryptErrorBodySettles \/ EncryptResponseOk
    \/ EncryptBlobResolves \/ EncryptBlobRejects
    \/ BtnCompareOnclick \/ CompareFetchRejects \/ CompareResponseNotOk
    \/ CompareErrorBodySettles \/ CompareResponseOk
    \/ CompareBlobResolves \/ CompareBlobRejects
    \/ BtnDecryptOnclick \/ DecryptFetchRejects \/ DecryptResponseNotOk
    \/ DecryptErrorBodySettles \/ DecryptResponseOk \/ DecryptDataSettles

RequestSpec == FormsFilled /\ [][Requests]_vars

\* The request handlers again, where every request is answered and every
\* pending continuation runs; nothing makes the user click.
Continuations ==
    \/ EncryptFetchRejects \/ EncryptResponseNotOk \/ EncryptErrorBodySettles
    \/ EncryptResponseOk \/ EncryptBlobResolves \/ EncryptBlobRejects
    \/ CompareFetchRejects \/ CompareResponseNotOk \/ CompareErrorBodySettles
    \/ CompareResponseOk \/ CompareBlobResolves \/ CompareBlobRejects
    \/ DecryptFetchRejects \/ DecryptResponseNotOk \/ DecryptErrorBodySettles
    \/ DecryptResponseOk \/ DecryptDataSettles

FairRequestSpec == RequestSpec /\ WF_vars(Continuations)

\* The success responses of a server that answers each kind of request in
\* one way: 1.5 s for an encryption, (2.0 s, 1.5 s) for a comparison, both
\* without a file name, and one member for a decryption.
EncryptAnswered ==
    \E r \in pending : EncryptOk(r, Header(<<"1", ".", "5">>), NoHeader)

CompareAnswered ==
    \E r \in pending :
        CompareOk(r, <<Header(<<"2", ".", "0">>), Header(<<"1", ".", "5">>)>>, NoHeader)

DecryptAnswered ==
    \E r \in pending :
        DecryptOk(r, [parses |-> TRUE, session_id |-> "abc123", hasFiles |-> TRUE,
                      files |-> << <<"a.txt">> >>])

\* The three workflows side by side, from the filled forms and with that
\* server: a new selection on a page, its trigger, and for each request a
\* transport failure or a success response handled to its end.
EncryptSteps ==
    \/ DzEncOndrop \/ BtnEncryptOnclick \/ EncryptFetchRejects
    \/ EncryptAnswered \/ EncryptBlobResolves

CompareSteps ==
    \/ DzCmpOndrop \/ BtnCompareOnclick \/ CompareFetchRejects
    \/ CompareAnswered \/ CompareBlobResolves

DecryptSteps ==
    \/ PkgOnchange \/ BtnDecryptOnclick \/ DecryptFetchRejects
    \/ DecryptAnswered \/ DecryptDataSettles

WorkflowSteps == EncryptSteps \/ CompareSteps \/ DecryptSteps

WorkflowsSpec == FormsFilled /\ [][WorkflowSteps]_vars

\* The page before the load event, after the user has switched to the Compare
\* tab, dropped a.txt on its zone and typed the password " p": the state Spec
\* reaches by these three events.
CompareFormFilled ==
    /\ chosenFilesEnc = <<>>
    /\ chosenFilesCmp = <<FileA>>
    /\ pkgFiles = <<>>
    /\ pw = [w \in Workflows |-> IF w = "cmp" THEN <<" ", "p">> ELSE <<>>]
    /\ disabled = [w \in Workflows |-> w # "cmp"]
    /\ logEl = IndexHtml.logEl
    /\ footer = IndexHtml.footer
    /\ fileList = [IndexHtml.fileList EXCEPT !["cmp"] = RenderedList(<<FileA>>)]
    /\ summary = [IndexHtml.summary EXCEPT
                     !["cmp"] = RenderedSummary(@, <<FileA>>)]
    /\ tabsActive = {"compare"}
    /\ pagesActive = {"compare"}
    /\ panelsHidden = {"encrypt", "decrypt"}
    /\ comparisonChart = 0
    /\ charts = <<>>
    /\ loaded = FALSE
    /\ pending = {}
    /\ objectURLs = {}
    /\ issued = 0

\* The chart's side of the page: the load handler and the compare handler
\* with its continuations, in any order.
ChartSteps ==
    \/ WindowOnload \/ WindowOnloadThrows
    \/ BtnCompareOnclick \/ BtnCompareOnclickThrows
    \/ CompareFetchRejects \/ CompareResponseNotOk \/ CompareErrorBodySettles
    \/ CompareResponseOk \/ CompareBlobResolves \/ CompareBlobRejects

ChartSpec == CompareFormFilled /\ [][ChartSteps]_vars

\* One comparison from the filled forms, answered with every pair of times.
VerdictSpec == FormsFilled /\ [][BtnCompareOnclick \/ CompareResponseTimed]_vars

-----------------------------------------------------------------------------
(* Properties *)

InFlight(w) == {r \in pending : r.w = w}

\* The handler of request r ends in this step.
Ends(r) == r \in pending /\ \A q \in pending' : q.id # r.id

Selection(w) == IF w = "enc" THEN chosenFilesEnc ELSE chosenFilesCmp

LastLine(nodes) == TextContent(nodes)[Len(TextContent(nodes))]

\* C1: whenever no encrypt (compare) request is in flight, the encrypt
\* (compare) trigger is enabled iff its selection is non-empty and its
\* password, trimmed, is non-empty.
C1_EnabledIffSelectionAndPassword ==
    \A w \in SelectionWorkflows :
        InFlight(w) = {} =>
            (~disabled[w] <=> (Len(Selection(w)) # 0 /\ Trim(pw[w]) # <<>>))

\* C2: each workflow trigger has at most one request in flight.
C2_AtMostOneInFlight ==
    \A w \in Workflows : Cardinality(InFlight(w)) <= 1

\* C3: every encrypt or compare request that was issued carries at least one
\* file and a non-empty password.
C3_RequestsMeetPreconditions ==
    \A r \in pending :
        r.w \in SelectionWorkflows =>
            Len(r.formData.files) # 0 /\ r.formData.password # <<>>

\* C4: when the handling of a non-success response ends whose body does not
\* parse as JSON, or parses to an object without an "error" field, the line
\* logged and the status line contain the response's status code.
C4_FallbackNamesStatus ==
    [][ \A r \in pending :
          ( /\ r.stage = "json"
            /\ (~r.body.parses \/ (~r.body.isNull /\ r.body.error = NoField))
            /\ Ends(r) )
          => /\ Contains(LastLine(logEl'[r.w]), ToString(r.status))
             /\ Contains(footer', ToString(r.status)) ]_vars

\* C5: when the handling of a non-success response ends whose JSON body
\* carries a non-empty "error" string E, the text of that workflow's log grows
\* by exactly one line, the error line holding E, and the status line is the
\* error message holding E.
C5_ServerErrorReported ==
    [][ \A r \in pending :
          ( /\ r.stage = "json"
            /\ r.body.parses /\ ~r.body.isNull
            /\ r.body.error # NoField /\ r.body.error # ""
            /\ Ends(r) )
          => /\ TextContent(logEl'[r.w]) =
                    Append(TextContent(logEl[r.w]), <<"ERROR: ", r.body.error>>)
             /\ footer' = <<"Status: ", "Error: ", r.body.error>> ]_vars

\* C5 witness: a server error was reported in the encrypt log and the status
\* line.
C5_Witness ==
    /\ logEl["enc"] # <<>>
    /\ LastLine(logEl["enc"]) = <<"ERROR: ", "bad password">>
    /\ footer = <<"Status: ", "Error: ", "bad password">>

\* C6: whenever the handling of a response ends (success, non-success status
\* or transport failure), the workflow's trigger is enabled in the state that
\* follows.
C6_TriggerReenabled ==
    [][ \A r \in pending : Ends(r) => ~disabled'[r.w] ]_vars

\* C6 witness: a request succeeded, another failed, none is in flight and
\* every trigger is enabled again.
C6_Witness ==
    /\ issued = 2 /\ pending = {}
    /\ objectURLs # {}
    /\ \E w \in Workflows :
          logEl[w] # <<>> /\ Head(LastLine(logEl[w])) = "ERROR: "
    /\ \A w \in Workflows : ~disabled[w]

\* C7: every object URL created for a download is eventually released.
C7_ObjectURLsReleased ==
    \A id \in 1..MaxRequests :
        (ObjectURL(id) \in objectURLs) ~> (ObjectURL(id) \notin objectURLs)

\* C8: a drop or picker event that makes the encrypt (compare) selection empty
\* leaves the summary hidden, the file list empty and the trigger disabled.
C8_EmptySelectionCollapses ==
    [][ /\ ((DzEncOndrop \/ FilesEncOnchange) /\ chosenFilesEnc' = <<>>)
           => /\ summary'["enc"].hidden
              /\ fileList'["enc"] = <<>>
              /\ disabled'["enc"]
        /\ ((DzCmpOndrop \/ FilesCmpOnchange) /\ chosenFilesCmp' = <<>>)
           => /\ summary'["cmp"].hidden
              /\ fileList'["cmp"] = <<>>
              /\ disabled'["cmp"] ]_vars

\* C8 witness: with a password typed, a shown selection was replaced by the
\* empty one: the summary still holds its text but is hidden.
C8_Witness ==
    \E w \in SelectionWorkflows :
        /\ Selection(w) = <<>>
        /\ Trim(pw[w]) # <<>>
        /\ summary[w].text # "" /\ summary[w].hidden
        /\ fileList[w] = <<>>
        /\ disabled[w]

\* C9: whenever no decrypt request is in flight, the decrypt trigger is
\* enabled iff exactly one package file is chosen and the password, trimmed,
\* is non-empty; and every decrypt request carries exactly one package file.
C9_DecryptEnabledIffOnePackage ==
    /\ InFlight("dec") = {} =>
          (~disabled["dec"] <=> (Len(pkgFiles) = 1 /\ Trim(pw["dec"]) # <<>>))
    /\ \A r \in InFlight("dec") : Len(r.formData.files) = 1

TabState == [ tabsActive |-> tabsActive, pagesActive |-> pagesActive,
              panelsHidden |-> panelsHidden ]

ListedNames(items) == [i \in 1..Len(items) |-> items[i][1]]

FileNames(files) == [i \in 1..Len(files) |-> files[i].name]

\* C20: a drop or picker event on the encrypt (compare) zone leaves that
\* workflow's selection equal to exactly the event's files, whatever was
\* selected before, leaves the other workflow's selection as it was, and
\* leaves the list, the summary and the trigger as the renderer and the
\* enablement rule give them for the new selection: one item per file in
\* order, the summary hidden iff the selection is empty, the trigger enabled
\* iff the selection is non-empty and the trimmed password is non-empty.
C20_SelectionReplaced ==
    [][ \A files \in FileLists :
          /\ SelectEnc(files) =>
                /\ chosenFilesEnc' = files
                /\ chosenFilesCmp' = chosenFilesCmp
                /\ ListedNames(fileList'["enc"]) = FileNames(files)
                /\ summary'["enc"].hidden <=> (files = <<>>)
                /\ ~disabled'["enc"] <=> (files # <<>> /\ Trim(pw["enc"]) # <<>>)
          /\ SelectCmp(files) =>
                /\ chosenFilesCmp' = files
                /\ chosenFilesEnc' = chosenFilesEnc
                /\ ListedNames(fileList'["cmp"]) = FileNames(files)
                /\ summary'["cmp"].hidden <=> (files = <<>>)
                /\ ~disabled'["cmp"] <=> (files # <<>> /\ Trim(pw["cmp"]) # <<>>) ]_vars

\* C20 witness: the encrypt selection is a.txt alone and the compare selection
\* b.bin and a.txt, both rendered, both triggers enabled.
C20_Witness ==
    /\ chosenFilesEnc = <<FileA>>
    /\ chosenFilesCmp = <<FileB, FileA>>
    /\ ListedNames(fileList["enc"]) = <<"a.txt">>
    /\ ListedNames(fileList["cmp"]) = <<"b.bin", "a.txt">>
    /\ ~summary["enc"].hidden /\ ~summary["cmp"].hidden
    /\ ~disabled["enc"] /\ ~disabled["cmp"]

NoTime(h) ==
    \/ ~h.present
    \/ h.value = <<>>
    \/ Head(h.value) \notin Digits \cup {"+", "-", ".", " "}

\* C16: when a success response arrives whose time header is absent or
\* unparsable, the time logged (encrypt: the "Run complete" line; compare: the
\* FIFO / AI line) and the time charted is 0, and the workflow still ends with
\* its "complete" status.
C16_MissingTimeIsZero ==
    [][ \A r \in pending, cd \in ContentDispositions :
          /\ \A elapsed \in TimeHeaders :
                (EncryptOk(r, elapsed, cd) /\ NoTime(elapsed)) =>
                    LastLine(logEl'["enc"]) =
                        <<"Success! Run complete in ", "0.0000", "s.">>
          /\ \A times \in CompareTimeHeaders, i \in {1, 2} :
                (CompareOk(r, times, cd) /\ NoTime(times[i])) =>
                    LET text == TextContent(logEl'["cmp"])
                    IN  /\ charts'[comparisonChart'][i] = Num(0)
                        /\ text[Len(text) - 3 + i][2] = "0.0000"
          /\ (r.stage = "blob" /\ Ends(r) /\ objectURLs' # objectURLs) =>
                footer' \in { <<"Status: ", "Encryption complete.">>,
                              <<"Status: ", "Comparison complete.">> } ]_vars

\* The <a> elements of a log, in document order.
MemberLinks(nodes) == SelectSeq(nodes, LAMBDA n : n.kind = "a")

\* The part of a member path after its last "/".
BaseName(file) ==
    LET slashes == {i \in 1..Len(file) : file[i] = "/"}
        last    == IF slashes = {} THEN 0
                   ELSE CHOOSE i \in slashes : \A j \in slashes : j <= i
    IN  SubSeq(file, last + 1, Len(file))

\* The handling of a decrypt success response ends for request r, whose body
\* parsed and lists at least one member.
DecryptedMembers(r) ==
    /\ r.w = "dec" /\ r.stage = "data" /\ Ends(r)
    /\ r.body.parses /\ r.body.hasFiles /\ r.body.files # <<>>

\* One link per member, in list order, each leading to
\* /api/download_decrypted/<session>/<URL-encoded full member path>.
OneLinkPerMember(r, links) ==
    /\ Len(links) = Len(r.body.files)
    /\ \A i \in 1..Len(links) :
          links[i].href = <<"/api/download_decrypted/", r.body.session_id, "/">>
                              \o encodeURIComponent(r.body.files[i])
    /\ (r.body.files = << <<"a.txt">>, <<"sub", "/", "b", " ", "c.txt">> >>) =>
          /\ links[1].href = <<"/api/download_decrypted/", "abc123", "/", "a.txt">>
          /\ links[2].href = <<"/api/download_decrypted/", "abc123", "/",
                                "sub", "%2F", "b", "%20", "c.txt">>

\* C14: when the handling of a decrypt success response with session S and a
\* non-empty member list ends, the log holds exactly one link per member, in
\* list order, each leading to /api/download_decrypted/S/<URL-encoded full
\* member path>, and the visible label of each link is the last path segment
\* of the member's name.
C14_LinksLabelledByLastSegment ==
    [][ \A r \in pending :
          DecryptedMembers(r) =>
            LET links == MemberLinks(logEl'["dec"])
            IN  /\ OneLinkPerMember(r, links)
                /\ \A i \in 1..Len(links) :
                      links[i].lines = << BaseName(r.body.files[i]) >> ]_vars

\* C14, amended: one link per member, in order, with that target URL; the
\* download name (the download attribute) of each link is the last path
\* segment, and its visible text is Download "<full member path>".
C14_LinksDownloadLastSegment ==
    [][ \A r \in pending :
          DecryptedMembers(r) =>
            LET links == MemberLinks(logEl'["dec"])
            IN  /\ OneLinkPerMember(r, links)
                /\ \A i \in 1..Len(links) :
                      /\ links[i].download = BaseName(r.body.files[i])
                      /\ links[i].lines =
                            << <<"Download \"">> \o r.body.files[i] \o <<"\"">> >> ]_vars

\* C14 witness: the decrypt log ends with the links of a.txt and sub/b c.txt.
C14_Witness ==
    /\ Len(MemberLinks(logEl["dec"])) = 2
    /\ MemberLinks(logEl["dec"])[2].download = <<"b", " ", "c.txt">>
    /\ footer = <<"Status: ", "Decryption complete.">>
    /\ ~disabled["dec"]

\* C15: when the handling of a decrypt success response ends whose body has
\* an empty member list or none, the log holds no link, its text grows by
\* exactly the one "no files were found" line (no error line), the status is
\* "Decryption complete." and the trigger is enabled.
C15_EmptyPackageNeutral ==
    [][ \A r \in pending :
          ( /\ r.w = "dec" /\ r.stage = "data" /\ Ends(r)
            /\ r.body.parses
            /\ (~r.body.hasFiles \/ r.body.files = <<>>) )
          => /\ MemberLinks(logEl'["dec"]) = <<>>
             /\ TextContent(logEl'["dec"]) =
                   Append(TextContent(logEl["dec"]),
                          <<"Decryption complete, but no files were found in the package.">>)
             /\ footer' = <<"Status: ", "Decryption complete.">>
             /\ ~disabled'["dec"] ]_vars

\* C15 witness: a decrypt run ended with the "no files" line and the
\* "complete" status, the trigger enabled again.
C15_Witness ==
    /\ InFlight("dec") = {}
    /\ logEl["dec"] # <<>>
    /\ LastLine(logEl["dec"]) =
          <<"Decryption complete, but no files were found in the package.">>
    /\ footer = <<"Status: ", "Decryption complete.">>
    /\ ~disabled["dec"]

\* C17: in every state in which a request of a workflow is in flight, that
\* workflow's trigger is disabled, whatever selection and password events
\* have occurred since it was issued; so a request that never completes
\* leaves the trigger disabled for good.
C17_DisabledWhileInFlight ==
    \A w \in Workflows : InFlight(w) # {} => disabled[w]

\* The log of workflow w grows in this step by exactly one error-prefixed
\* line, and the status line carries the same message.
ErrorReported(w) ==
    \E line \in {LastLine(logEl'[w])} :
        /\ Head(line) = "ERROR: "
        /\ TextContent(logEl'[w]) = Append(TextContent(logEl[w]), line)
        /\ footer' = <<"Status: ", "Error: ">> \o Tail(line)

\* The handling of request r ends in this step without a download link.
EndsInFailure(r) ==
    /\ Ends(r)
    /\ ~(r.stage \in {"blob", "data"} /\ footer'[Len(footer')] \in
            {"Encryption complete.", "Comparison complete.", "Decryption complete."})

\* A trigger's handler was activated in this step and ended before it had
\* issued its request.
FailsBeforeRequest == issued' # issued /\ pending' = pending

\* C12: every failure of a trigger's handler is reported by exactly one
\* error-prefixed log line and the matching status message: both when the
\* handling of a request ends in failure and when the handler fails before
\* it has issued the request (chart reset, request construction), in which
\* case the line is the compare log's.
C12_FailuresReported ==
    [][ /\ \A r \in pending : EndsInFailure(r) => ErrorReported(r.w)
        /\ FailsBeforeRequest => ErrorReported("cmp") ]_vars

\* The data of the chart the page's global points to.
ShownChart == charts[comparisonChart]

\* C18: the chart shows (0, 0) in every state in which a compare request
\* awaits its response (so it was reset before the request was issued), still
\* shows (0, 0) when the handling of a compare request has ended in failure,
\* and shows exactly the response's (fifo, ai) once a success response has
\* been handled.
C18_ChartNeverStale ==
    [][ /\ \A r \in pending' :
              (r.w = "cmp" /\ r.stage \in {"fetch", "json"}) =>
                  comparisonChart' # 0 /\ ShownChart' = <<Num(0), Num(0)>>
        /\ \A r \in pending :
              (r.w = "cmp" /\ EndsInFailure(r)) => ShownChart' = <<Num(0), Num(0)>>
        /\ \A r \in pending, times \in CompareTimeHeaders, cd \in ContentDispositions :
              CompareOk(r, times, cd) =>
                  ShownChart' = << parseFloat(HeaderOrZero(times[1])),
                                   parseFloat(HeaderOrZero(times[2])) >> ]_vars

\* C19: at most one chart instance is ever created on the canvas; once the
\* page's global points to a chart it keeps pointing to it; the load
\* handler's initialize, run when a chart exists, leaves the chart and the
\* values it shows as they are; and a compare request is never issued without
\* a chart (the first update creates it).
C19_OneChartInstance ==
    [][ /\ Len(charts') <= 1
        /\ comparisonChart # 0 => comparisonChart' = comparisonChart
        /\ (~loaded /\ loaded' /\ charts # <<>>) => charts' = charts
        /\ (InFlight("cmp")' # {}) => comparisonChart' # 0 ]_vars

\* What belongs to workflow w: its selection, its trigger's enablement, its
\* requests in flight and its log.
Part(w) ==
    [ selection |-> IF w = "dec" THEN pkgFiles ELSE Selection(w),
      disabled  |-> disabled[w],
      inFlight  |-> InFlight(w),
      log       |-> logEl[w] ]

\* C11: no step of one workflow (a selection change, a trigger click, the
\* handling of a response, successful or failed) changes another workflow's
\* selection, trigger enablement, requests in flight or log; in particular
\* the end of a failed request leaves the other triggers as they were.
C11_WorkflowsIndependent ==
    [][ /\ EncryptSteps => Part("cmp")' = Part("cmp") /\ Part("dec")' = Part("dec")
        /\ CompareSteps => Part("enc")' = Part("enc") /\ Part("dec")' = Part("dec")
        /\ DecryptSteps => Part("enc")' = Part("enc") /\ Part("cmp")' = Part("cmp")
        /\ \A r \in pending : EndsInFailure(r) =>
              \A v \in Workflows \ {r.w} : disabled'[v] = disabled[v] ]_vars

\* C11 witness: an encrypt and a decrypt request are in flight at once, the
\* compare selection has been replaced meanwhile and the compare trigger is
\* enabled.
C11_Witness ==
    /\ InFlight("enc") # {} /\ InFlight("dec") # {}
    /\ chosenFilesCmp = <<FileB, FileA>>
    /\ ~disabled["cmp"]

=============================================================================
